---- MODULE Spec2Model ----
(***************************************************************************)
(* TravelPulse Sri Lanka (app.py): the data loaders, the cleaning of the   *)
(* review table, the review store, page navigation over script reruns,     *)
(* and the itinerary builder (deduplication, filters, left join,           *)
(* start/end-city reordering, day-bucketing).                              *)
(*                                                                         *)
(* A text value is a sequence of one-character strings, so that title(),   *)
(* strip() and str.contains() are computed character by character.  A      *)
(* table (DataFrame) is a record [columns, rows]; rows is a sequence of    *)
(* records carrying the pandas index label in the field idx.  The working  *)
(* table of the itinerary builder, itinerary_df, is kept as its sequence   *)
(* of rows.                                                                *)
(***************************************************************************)
EXTENDS Integers, Sequences, FiniteSets

VARIABLES
    reviews_xlsx,       \* the review spreadsheet on disk: [exists, columns, rows]
    activities_csv,     \* the activity file on disk: [exists, columns, rows]
    reviews_df,         \* module-level reviews_df (app.py:36, 55-63)
    activities_df,      \* module-level activities_df (app.py:52)
    db,                 \* table "reviews" of tourism.db: [exists, rows]
    page,               \* st.session_state.page
    clicked,            \* the navigation button pressed for the current run, or NoClick
    pc,                 \* position of the script run / of the submit handler
    exc,                \* exception that ended the current run, or "none"
    messages,           \* st.error messages shown in the current run
    rendered,           \* what the page section of the current run has shown
    preferred_district, \* form inputs (app.py:263-271)
    preferred_activity,
    start_city,
    end_city,
    num_days,
    itinerary_df,       \* local itinerary_df of the submit handler
    joined_df,          \* value of itinerary_df after the merge (app.py:283-285)
    started_df,         \* value of itinerary_df after the start-city step (app.py:287-290)
    day_plans           \* day_plans[d]: the slice day_plan of iteration d-1 (app.py:302)

vars == <<reviews_xlsx, activities_csv, reviews_df, activities_df, db, page,
          clicked, pc, exc, messages, rendered, preferred_district,
          preferred_activity, start_city, end_city, num_days, itinerary_df,
          joined_df, started_df, day_plans>>

appVars == <<reviews_xlsx, activities_csv, reviews_df, activities_df, db, page,
             clicked, exc, messages, rendered>>

formVars == <<preferred_district, preferred_activity, start_city, end_city, num_days>>

(***************************************************************************)
(* Bounds of the model.                                                    *)
(***************************************************************************)
MaxReviews == 3      \* rows of the review spreadsheet
MaxActs == 2         \* rows of the activity file
MaxT == 9            \* entries handed to the day-bucketing loop

(***************************************************************************)
(* Text.                                                                   *)
(***************************************************************************)
lowers == <<"a","b","c","d","e","f","g","h","i","j","k","l","m",
            "n","o","p","q","r","s","t","u","v","w","x","y","z">>
uppers == <<"A","B","C","D","E","F","G","H","I","J","K","L","M",
            "N","O","P","Q","R","S","T","U","V","W","X","Y","Z">>

IsLower(c) == \E i \in 1..26 : lowers[i] = c
IsUpper(c) == \E i \in 1..26 : uppers[i] = c
IsCased(c) == IsLower(c) \/ IsUpper(c)
Upper(c) == IF IsLower(c) THEN uppers[CHOOSE i \in 1..26 : lowers[i] = c] ELSE c
Lower(c) == IF IsUpper(c) THEN lowers[CHOOSE i \in 1..26 : uppers[i] = c] ELSE c

S_Positive == <<"P","o","s","i","t","i","v","e">>
S_Neutral == <<"N","e","u","t","r","a","l">>
S_Negative == <<"N","e","g","a","t","i","v","e">>
S_Uva == <<"U","v","a">>
S_Galle == <<"G","a","l","l","e">>

\* a missing cell (NaN) of a table
NaN == <<"NaN">>

Min(S) == CHOOSE x \in S : \A y \in S : x <= y
Max(S) == CHOOSE x \in S : \A y \in S : x >= y

\* Series.astype(str): a missing cell becomes the text "nan"
astype_str(v) == IF v = NaN THEN <<"n","a","n">> ELSE v

\* str.title(): a cased character is upper-cased at the start of the text and
\* after an uncased character, lower-cased after a cased one
title(s) == [i \in 1..Len(s) |->
               IF i = 1 \/ ~IsCased(s[i-1]) THEN Upper(s[i]) ELSE Lower(s[i])]

\* str.strip(): leading and trailing blanks removed
strip(s) == LET ink == {i \in 1..Len(s) : s[i] # " "}
            IN  IF ink = {} THEN <<>> ELSE SubSeq(s, Min(ink), Max(ink))

\* Series.str.contains(pat, case=False): pat is a regular expression (the
\* default regex=True), searched anywhere in s, ignoring case.  Patterns are
\* over letters, blanks and ".", where "." matches any character.
str_contains(s, pat) ==
    \E off \in 0..(Len(s) - Len(pat)) :
        \A i \in 1..Len(pat) :
            pat[i] = "." \/ Lower(pat[i]) = Lower(s[off + i])

\* df[mask]: the rows at the positions in S, in order, index labels kept
Pick(rows, S) ==
    LET nth(k) == CHOOSE i \in S : Cardinality({j \in S : j < i}) = k - 1
    IN  [k \in 1..Cardinality(S) |-> rows[nth(k)]]

\* DataFrame.empty
empty(df) == df.rows = <<>>

\* pd.DataFrame()
EmptyFrame == [columns |-> {}, rows |-> <<>>]

\* a file that does not exist; the table "reviews" when it does not exist
Missing == [exists |-> FALSE, columns |-> {}, rows |-> <<>>]
NoTable == [exists |-> FALSE, rows |-> <<>>]
NoClick == "no click"

(***************************************************************************)
(* Input files.  A header is a sequence of tokens, the column name and any *)
(* blanks around it; a cell is a text or NaN.                              *)
(***************************************************************************)
Col(name) == <<name>>
ReviewColumns == {Col("Cleaned_Review"), Col("Sentiment"), Col("District"),
                  Col("Destination"), Col("Latitude"), Col("Longitude")}
ActivityColumns == {Col("Activity Category"), Col("Activity"), Col("District")}

\* pd.read_excel / pd.read_csv: the rows of the file under a fresh index
File(columns, rows) ==
    [exists |-> TRUE, columns |-> columns,
     rows |-> [i \in 1..Len(rows) |-> [rows[i] EXCEPT !.idx = i - 1]]]

RawReview(dest, dist, sent, lat) ==
    [idx |-> 0, Cleaned_Review |-> <<"o","k">>, Sentiment |-> sent, District |-> dist,
     Destination |-> dest, Latitude |-> lat, Longitude |-> <<"8","0">>]

R_ella == RawReview(<<" ","e","l","l","a">>, <<"u","v","a">>,
                    <<"p","o","s","i","t","i","v","e">>, <<"7">>)
R_galle == RawReview(<<"G","A","L","L","E">>, <<"g","a","l","l","e"," ">>,
                     <<"N","E","U","T","R","A","L">>, <<"6",".","1">>)
R_mt_ella == RawReview(<<"m","t",".","e","l","l","a">>, <<"U","V","A">>,
                       <<"n","e","g","a","t","i","v","e">>, <<"x">>)
R_ella_galle == RawReview(<<"E","l","l","a">>, <<"g","a","l","l","e"," ">>,
                          <<"P","o","s","i","t","i","v","e">>, NaN)
R_blank_sentiment == RawReview(<<"e","l","l","a">>, <<"u","v","a">>,
                               <<" ","p","o","s","i","t","i","v","e">>, <<"7">>)
R_no_sentiment == RawReview(<<"g","a","l","l","e">>, NaN, NaN, <<"7">>)

RawReviewRows == {R_ella, R_galle, R_mt_ella, R_ella_galle, R_blank_sentiment,
                  R_no_sentiment}

RawActivity(cat, act, dist) ==
    [idx |-> 0, Activity_Category |-> cat, Activity |-> act, District |-> dist]

A_hike == RawActivity(<<"n","a","t","u","r","e">>, <<"H","i","k","e"," ">>,
                      <<" ","u","v","a">>)
A_tea == RawActivity(<<"f","o","o","d">>, <<"T","e","a">>, <<"U","V","A">>)
A_surf == RawActivity(<<"N","a","t","u","r","e">>, <<"S","u","r","f">>,
                      <<"g","a","l","l","e">>)

RawActivityRows == {A_hike, A_tea, A_surf}

SeqsUpTo(S, n) == UNION {[1..k -> S] : k \in 0..n}

\* a header written with blanks around the name
Padded(columns) == {<<" ">> \o c \o <<" ">> : c \in columns}

\* the review spreadsheets of the model: absent, complete, complete with a
\* padded header, or lacking one required column
ReviewFiles ==
    {Missing}
    \cup {File(ReviewColumns, rows) : rows \in SeqsUpTo(RawReviewRows, MaxReviews)}
    \cup {File(Padded(ReviewColumns), <<R_galle, R_no_sentiment>>)}
    \cup {File(ReviewColumns \ {c}, rows) :
            <<c, rows>> \in ReviewColumns \X {<<>>, <<R_ella>>}}

\* the activity files of the model, likewise
ActivityFiles ==
    {Missing}
    \cup {File(ActivityColumns, rows) : rows \in {<<>>, <<A_hike, A_surf>>}}
    \cup {File(Padded(ActivityColumns), <<A_tea>>)}
    \cup {File(ActivityColumns \ {c}, <<A_hike>>) : c \in ActivityColumns}

(***************************************************************************)
(* Loaders and cleaning (app.py:27-63).  An operation that can raise       *)
(* yields [df, msg, exc]: the table, the st.error messages, the exception. *)
(***************************************************************************)
ReviewsNotFound == "Final_Cleaned_Tourist_Reviews.xlsx not found."
ActivitiesNotFound == "Rural_Activities_Expanded.csv not found."

\* df.columns.str.strip()
strip_columns(df) == [df EXCEPT !.columns = {strip(c) : c \in df.columns}]

\* a plausible defect: FileNotFoundError not caught
load_excel_data_uncaught(file) ==
    IF ~file.exists
    THEN [df |-> EmptyFrame, msg |-> {}, exc |-> "FileNotFoundError"]
    ELSE [df |-> [columns |-> file.columns, rows |-> file.rows],
          msg |-> {}, exc |-> "none"]

\* load_excel_data (app.py:27-34)
load_excel_data(file) ==
    IF ~file.exists
    THEN [df |-> EmptyFrame, msg |-> {ReviewsNotFound}, exc |-> "none"]
    ELSE [df |-> [columns |-> file.columns, rows |-> file.rows],
          msg |-> {}, exc |-> "none"]

\* load_activities_data (app.py:39-50): only FileNotFoundError is caught; a
\* column that is absent raises KeyError at its first use
load_activities_data(file) ==
    IF ~file.exists
    THEN [df |-> EmptyFrame, msg |-> {ActivitiesNotFound}, exc |-> "none"]
    ELSE LET df == strip_columns([columns |-> file.columns, rows |-> file.rows])
         IN  IF ActivityColumns \subseteq df.columns
             THEN [df |-> [df EXCEPT !.rows = [i \in DOMAIN df.rows |->
                      [df.rows[i] EXCEPT
                         !.Activity_Category = strip(title(astype_str(@))),
                         !.Activity = strip(astype_str(@)),
                         !.District = strip(title(astype_str(@)))]]],
                   msg |-> {}, exc |-> "none"]
             ELSE [df |-> EmptyFrame, msg |-> {}, exc |-> "KeyError"]

Sentiments == {S_Positive, S_Neutral, S_Negative}

IsNumber(v) == /\ v # <<>>
               /\ \A i \in 1..Len(v) : v[i] \in {"0","1","2","3","4","5","6","7","8","9","."}
               /\ Cardinality({i \in 1..Len(v) : v[i] = "."}) <= 1
               /\ \E i \in 1..Len(v) : v[i] # "."
\* pd.to_numeric(..., errors='coerce')
to_numeric(v) == IF v # NaN /\ IsNumber(strip(v)) THEN strip(v) ELSE NaN

MapRows(df, f(_)) == [df EXCEPT !.rows = [i \in DOMAIN df.rows |-> f(df.rows[i])]]

\* a plausible defect: the Sentiment filter of line 61 left out
clean_line_unfiltered(df, line) ==
    CASE line = 57 -> MapRows(df, LAMBDA r : [r EXCEPT !.Cleaned_Review = astype_str(@)])
      [] line = 58 -> MapRows(df, LAMBDA r : [r EXCEPT !.Sentiment = title(astype_str(@))])
      [] line = 59 -> MapRows(df, LAMBDA r : [r EXCEPT !.District = strip(title(astype_str(@)))])
      [] line = 60 -> MapRows(df, LAMBDA r : [r EXCEPT !.Destination = strip(title(astype_str(@)))])
      [] line = 61 -> df
      [] line = 62 -> MapRows(df, LAMBDA r : [r EXCEPT !.Latitude = to_numeric(@)])
      [] line = 63 -> MapRows(df, LAMBDA r : [r EXCEPT !.Longitude = to_numeric(@)])

\* the effect of one line of the cleaning block on reviews_df (app.py:57-63)
clean_line(df, line) ==
    CASE line = 57 -> MapRows(df, LAMBDA r : [r EXCEPT !.Cleaned_Review = astype_str(@)])
      [] line = 58 -> MapRows(df, LAMBDA r : [r EXCEPT !.Sentiment = title(astype_str(@))])
      [] line = 59 -> MapRows(df, LAMBDA r : [r EXCEPT !.District = strip(title(astype_str(@)))])
      [] line = 60 -> MapRows(df, LAMBDA r : [r EXCEPT !.Destination = strip(title(astype_str(@)))])
      [] line = 61 -> [df EXCEPT !.rows = Pick(df.rows,
                          {i \in 1..Len(df.rows) : df.rows[i].Sentiment \in Sentiments})]
      [] line = 62 -> MapRows(df, LAMBDA r : [r EXCEPT !.Latitude = to_numeric(@)])
      [] line = 63 -> MapRows(df, LAMBDA r : [r EXCEPT !.Longitude = to_numeric(@)])

\* the column each line of the cleaning block reads
clean_reads(line) ==
    CASE line = 57 -> Col("Cleaned_Review")
      [] line = 58 -> Col("Sentiment")
      [] line = 59 -> Col("District")
      [] line = 60 -> Col("Destination")
      [] line = 61 -> Col("Sentiment")
      [] line = 62 -> Col("Latitude")
      [] line = 63 -> Col("Longitude")

\* lines 57-63 in order; a column that is absent raises KeyError and leaves
\* reviews_df as the lines before have made it
RECURSIVE clean_from(_, _)
clean_from(df, line) ==
    IF line > 63 THEN [df |-> df, msg |-> {}, exc |-> "none"]
    ELSE IF clean_reads(line) \notin df.columns
         THEN [df |-> df, msg |-> {}, exc |-> "KeyError"]
         ELSE clean_from(clean_line(df, line), line + 1)

\* the cleaning block (app.py:55-63)
data_cleaning(df) ==
    IF ~empty(df)
    THEN clean_from(strip_columns(df), 57)
    ELSE [df |-> df, msg |-> {}, exc |-> "none"]

\* reviews_df.to_sql("reviews", conn, if_exists="replace", index=False)
to_sql(df) ==
    [exists |-> TRUE,
     rows |-> [i \in DOMAIN df.rows |->
                 [c \in DOMAIN df.rows[i] \ {"idx"} |-> df.rows[i][c]]]]

(***************************************************************************)
(* Itinerary builder: the operations of the submit handler                 *)
(* (app.py:274-313).                                                       *)
(***************************************************************************)
index(rows) == {rows[i].idx : i \in 1..Len(rows)}

\* DataFrame.drop(labels): the rows whose index label is not in labels
drop(rows, labels) == Pick(rows, {i \in 1..Len(rows) : rows[i].idx \notin labels})

\* DataFrame.reset_index(drop=True): labels 0..n-1 in the current order
reset_index(rows) == [i \in 1..Len(rows) |-> [rows[i] EXCEPT !.idx = i - 1]]

\* a plausible defect: keep the last row of each Destination
drop_duplicates_keep_last(rows) ==
    Pick(rows, {i \in 1..Len(rows) :
                  \A j \in (i+1)..Len(rows) : rows[j].Destination # rows[i].Destination})

\* reviews_df.drop_duplicates(subset=['Destination']): keep='first'
drop_duplicates(rows) ==
    Pick(rows, {i \in 1..Len(rows) :
                  \A j \in 1..(i-1) : rows[j].Destination # rows[i].Destination})

\* itinerary_df[itinerary_df['District'] == preferred_district], unless "Any"
Any == <<"A","n","y">>
district_filter(rows, district) ==
    IF district # Any
    THEN Pick(rows, {i \in 1..Len(rows) : rows[i].District = district})
    ELSE rows

\* activity_filtered: rows whose category is selected, or all rows when the
\* selection is empty or contains "Any"
activity_filter(rows, selection) ==
    IF selection # {} /\ Any \notin selection
    THEN Pick(rows, {i \in 1..Len(rows) : rows[i].Activity_Category \in selection})
    ELSE rows

Entry(l, cat, act) ==
    [idx |-> l.idx, Cleaned_Review |-> l.Cleaned_Review, Sentiment |-> l.Sentiment,
     District |-> l.District, Destination |-> l.Destination,
     Latitude |-> l.Latitude, Longitude |-> l.Longitude,
     Activity_Category |-> cat, Activity |-> act]

\* a plausible defect: an inner join, which loses reviews without activity
merge_rows_inner(l, right) ==
    LET m == Pick(right, {j \in 1..Len(right) : right[j].District = l.District})
    IN  [k \in 1..Len(m) |-> Entry(l, m[k].Activity_Category, m[k].Activity)]

\* the rows a left join produces for one left row
merge_rows(l, right) ==
    LET m == Pick(right, {j \in 1..Len(right) : right[j].District = l.District})
    IN  IF m = <<>>
        THEN << Entry(l, NaN, NaN) >>
        ELSE [k \in 1..Len(m) |-> Entry(l, m[k].Activity_Category, m[k].Activity)]

RECURSIVE merge_concat(_, _)
merge_concat(left, right) ==
    IF left = <<>> THEN <<>>
    ELSE merge_rows(Head(left), right) \o merge_concat(Tail(left), right)

\* itinerary_df.merge(activity_filtered[[...]], on='District', how='left'):
\* left order kept, matches in right order, a fresh index 0..n-1
merge(left, right) == reset_index(merge_concat(left, right))

\* the start-city step (app.py:287-290)
start_step(rows, city) ==
    IF city # <<>>
    THEN LET start_row == Pick(rows, {i \in 1..Len(rows) :
                                        str_contains(rows[i].Destination, city)})
         IN  IF start_row # <<>>
             THEN start_row \o drop(rows, index(start_row))
             ELSE rows
    ELSE rows

\* the end-city step (app.py:291-294)
end_step(rows, city) ==
    IF city # <<>>
    THEN LET end_row == Pick(rows, {i \in 1..Len(rows) :
                                      str_contains(rows[i].Destination, city)})
         IN  IF end_row # <<>>
             THEN drop(rows, index(end_row)) \o end_row
             ELSE rows
    ELSE rows

\* a plausible defect: the minimum of one entry per day forgotten
destinations_per_day_no_min(total, days) == total \div days

\* destinations_per_day = max(1, len(itinerary_df) // num_days)
destinations_per_day(total, days) ==
    IF total \div days >= 1 THEN total \div days ELSE 1

\* a plausible defect: the slice ends one position early
iloc_short(rows, a, b) ==
    LET lo == IF a < Len(rows) THEN a ELSE Len(rows)
        hi == IF b - 1 < Len(rows) THEN b - 1 ELSE Len(rows)
    IN  IF lo < hi THEN SubSeq(rows, lo + 1, hi) ELSE <<>>

\* itinerary_df.iloc[a:b] for 0 <= a <= b: positions a .. b-1, clipped to the
\* length of the table
iloc(rows, a, b) ==
    LET lo == IF a < Len(rows) THEN a ELSE Len(rows)
        hi == IF b < Len(rows) THEN b ELSE Len(rows)
    IN  IF lo < hi THEN SubSeq(rows, lo + 1, hi) ELSE <<>>

\* the slices day_plan of the loop over range(num_days) (app.py:301-302)
day_slices(rows, days) ==
    LET per_day == destinations_per_day(Len(rows), days)
    IN  [d \in 1..days |-> iloc(rows, (d - 1) * per_day, d * per_day)]

NA == <<"N","/","A">>
\* activity_info (app.py:306)
activity_info(row) ==
    IF row.Activity_Category # NaN
    THEN row.Activity_Category \o <<" ","-"," ">> \o row.Activity
    ELSE NA

DaysRange == 1..10      \* st.slider(..., 1, 10, 3)

(***************************************************************************)
(* The submit handler of the itinerary form (app.py:274-313), one action   *)
(* per step.  It runs in a script run that has loaded and cleaned both     *)
(* tables, stored the reviews and shown the form.                          *)
(***************************************************************************)
FormShown(rfile, afile) ==
    /\ reviews_xlsx = rfile /\ activities_csv = afile
    /\ reviews_df = data_cleaning(load_excel_data(rfile).df).df
    /\ activities_df = load_activities_data(afile).df
    /\ ~empty(reviews_df) /\ ~empty(activities_df)      \* app.py:261
    /\ db = to_sql(reviews_df)
    /\ page = "Itinerary" /\ clicked = NoClick
    /\ exc = "none" /\ messages = {} /\ rendered = "form"

FormIs(f) ==
    /\ preferred_district = f.preferred_district
    /\ preferred_activity = f.preferred_activity
    /\ start_city = f.start_city
    /\ end_city = f.end_city
    /\ num_days = f.num_days

\* the form before a step has read its input; the defaults of the widgets
\* where they have one (app.py:263-271)
NoForm == [preferred_district |-> Any, preferred_activity |-> {},
           start_city |-> <<>>, end_city |-> <<>>, num_days |-> 3]

Districts(df) == {df.rows[i].District : i \in 1..Len(df.rows)}
Categories(df) == {df.rows[i].Activity_Category : i \in 1..Len(df.rows)}

\* texts typed as start or end city: empty, plain letters in either case,
\* and texts with a "."
Cities == { <<>>, <<"e","l","l","a">>, <<"G","A","L">>, <<"l",".","e">>, <<".">> }

InitJoin ==
    /\ \E rows \in SeqsUpTo(RawReviewRows, MaxReviews) :
       \E acts \in SeqsUpTo(RawActivityRows, MaxActs) :
           FormShown(File(ReviewColumns, rows), File(ActivityColumns, acts))
    /\ FormIs(NoForm)
    /\ itinerary_df = <<>> /\ joined_df = <<>> /\ started_df = <<>>
    /\ day_plans = <<>>
    /\ pc = "submitted"

\* app.py:275
Dedup ==
    /\ pc = "submitted"
    /\ itinerary_df' = drop_duplicates(reviews_df.rows)
    /\ pc' = "deduped"
    /\ UNCHANGED <<appVars, formVars, joined_df, started_df, day_plans>>

\* app.py:276-277
DistrictFilter ==
    /\ pc = "deduped"
    /\ \E district \in {Any} \cup Districts(reviews_df) :
         /\ preferred_district' = district
         /\ itinerary_df' = district_filter(itinerary_df, district)
    /\ pc' = "filtered"
    /\ UNCHANGED <<appVars, preferred_activity, start_city, end_city, num_days,
                   joined_df, started_df, day_plans>>

\* app.py:278-285
Merge ==
    /\ pc = "filtered"
    /\ \E selection \in SUBSET ({Any} \cup Categories(activities_df)) :
         /\ preferred_activity' = selection
         /\ itinerary_df' = merge(itinerary_df,
                                  activity_filter(activities_df.rows, selection))
         /\ joined_df' = itinerary_df'
    /\ pc' = "merged"
    /\ UNCHANGED <<appVars, preferred_district, start_city, end_city, num_days,
                   started_df, day_plans>>

NextJoin == Dedup \/ DistrictFilter \/ Merge

SpecJoin == InitJoin /\ [][NextJoin]_vars

\* the handler after the merge, for a form with no district and no activity
\* category chosen
InitReorder ==
    /\ \E rows \in SeqsUpTo(RawReviewRows, MaxReviews) :
       \E acts \in SeqsUpTo(RawActivityRows, MaxActs) :
           FormShown(File(ReviewColumns, rows), File(ActivityColumns, acts))
    /\ FormIs(NoForm)
    /\ itinerary_df = merge(district_filter(drop_duplicates(reviews_df.rows), Any),
                            activity_filter(activities_df.rows, {}))
    /\ joined_df = itinerary_df
    /\ started_df = <<>> /\ day_plans = <<>>
    /\ pc = "merged"

\* app.py:287-290
StartCity ==
    /\ pc = "merged"
    /\ \E city \in Cities :
         /\ start_city' = city
         /\ itinerary_df' = start_step(itinerary_df, city)
         /\ started_df' = itinerary_df'
    /\ pc' = "started"
    /\ UNCHANGED <<appVars, preferred_district, preferred_activity, end_city,
                   num_days, joined_df, day_plans>>

\* app.py:291-294
EndCity ==
    /\ pc = "started"
    /\ \E city \in Cities :
         /\ end_city' = city
         /\ itinerary_df' = end_step(itinerary_df, city)
    /\ pc' = "ended"
    /\ UNCHANGED <<appVars, preferred_district, preferred_activity, start_city,
                   num_days, joined_df, started_df, day_plans>>

NextReorder == StartCity \/ EndCity

SpecReorder == InitReorder /\ [][NextReorder]_vars

(***************************************************************************)
(* Day-bucketing (app.py:296-313) for up to MaxT entries: the handler      *)
(* after the end-city step, for T reviews of distinct destinations in one  *)
(* district and one more in another, the first district chosen in the      *)
(* form, and an activity table without an activity in that district.       *)
(***************************************************************************)
PlainReview(i, district) ==
    RawReview(<<uppers[i]>>, district, S_Positive, <<"7">>)

BucketReviews(T) ==
    [i \in 1..(T + 1) |-> IF i <= T THEN PlainReview(i, S_Uva)
                          ELSE PlainReview(26, S_Galle)]

InitBucket ==
    /\ \E T \in 0..MaxT :
         FormShown(File(ReviewColumns, BucketReviews(T)),
                   File(ActivityColumns, <<A_surf>>))
    /\ preferred_district = S_Uva /\ preferred_activity = {}
    /\ start_city = <<>> /\ end_city \in {<<>>, <<"a">>} /\ num_days = 3
    /\ joined_df = merge(district_filter(drop_duplicates(reviews_df.rows),
                                         preferred_district),
                         activity_filter(activities_df.rows, preferred_activity))
    /\ started_df = start_step(joined_df, start_city)
    /\ itinerary_df = end_step(started_df, end_city)
    /\ day_plans = <<>>
    /\ pc = "ended"

\* app.py:296-313: reset_index, destinations_per_day, the loop over the days
Bucket ==
    /\ pc = "ended"
    /\ \E n \in DaysRange :
         /\ num_days' = n
         /\ itinerary_df' = reset_index(itinerary_df)
         /\ day_plans' = day_slices(reset_index(itinerary_df), n)
    /\ pc' = "bucketed"
    /\ UNCHANGED <<appVars, preferred_district, preferred_activity, start_city,
                   end_city, joined_df, started_df>>

NextBucket == Bucket

SpecBucket == InitBucket /\ [][NextBucket]_vars

(***************************************************************************)
(* Properties of deduplication and the left join (SpecJoin).               *)
(***************************************************************************)
\* the reviews and the activities the merge joins, from the form inputs
JoinLeft == district_filter(drop_duplicates(reviews_df.rows), preferred_district)
JoinRight == activity_filter(activities_df.rows, preferred_activity)
EntriesOf(r) == Pick(itinerary_df, {i \in 1..Len(itinerary_df) :
                                      itinerary_df[i].Destination = r.Destination})
MatchesOf(r) == Pick(JoinRight, {j \in 1..Len(JoinRight) :
                                   JoinRight[j].District = r.District})
PosInLeft(e) == CHOOSE i \in 1..Len(JoinLeft) : JoinLeft[i].Destination = e.Destination

\* C5: the joined sequence holds, for every deduplicated, district-filtered
\* review r with k matching filtered activities, exactly max(1, k) entries:
\* one per matching activity when k >= 1, one without activity (shown as
\* N/A) when k = 0; the entries follow the order of the reviews.
C5_LeftJoin ==
    pc = "merged" =>
      /\ \A i \in 1..Len(JoinLeft) :
           LET r == JoinLeft[i]
               k == Len(MatchesOf(r))
               es == EntriesOf(r)
           IN  /\ Len(es) = IF k >= 1 THEN k ELSE 1
               /\ \A n \in 1..Len(es) :
                    /\ es[n].District = r.District /\ es[n].Sentiment = r.Sentiment
                    /\ k >= 1 => /\ es[n].Activity_Category = MatchesOf(r)[n].Activity_Category
                                 /\ es[n].Activity = MatchesOf(r)[n].Activity
                                 /\ activity_info(es[n]) # NA
                    /\ k = 0 => /\ es[n].Activity_Category = NaN /\ es[n].Activity = NaN
                                /\ activity_info(es[n]) = NA
      /\ \A n \in 1..Len(itinerary_df) :
           \E i \in 1..Len(JoinLeft) : JoinLeft[i].Destination = itinerary_df[n].Destination
      /\ \A m, n \in 1..Len(itinerary_df) :
           m < n => PosInLeft(itinerary_df[m]) <= PosInLeft(itinerary_df[n])

\* a review without activity next to a review with two activities
C5_Witness ==
    /\ pc = "merged"
    /\ \E i, j \in 1..Len(JoinLeft) :
         /\ Len(MatchesOf(JoinLeft[i])) = 0 /\ Len(EntriesOf(JoinLeft[i])) = 1
         /\ Len(MatchesOf(JoinLeft[j])) = 2 /\ Len(EntriesOf(JoinLeft[j])) = 2

\* C10: deduplicating the deduplicated reviews changes nothing, and the row
\* kept for a Destination is its first row in input order.
C10_DedupIdempotent ==
    pc = "deduped" =>
      /\ drop_duplicates(itinerary_df) = itinerary_df
      /\ \A i \in 1..Len(reviews_df.rows) :
           LET r == reviews_df.rows[i]
               first == \A j \in 1..(i-1) : reviews_df.rows[j].Destination # r.Destination
           IN  first <=> \E n \in 1..Len(itinerary_df) : itinerary_df[n] = r
      /\ \A m, n \in 1..Len(itinerary_df) :
           m < n => itinerary_df[m].idx < itinerary_df[n].idx

\* a table with a repeated Destination, deduplicated
C10_Witness ==
    /\ pc = "deduped"
    /\ 1 < Len(itinerary_df) /\ Len(itinerary_df) < Len(reviews_df.rows)

(***************************************************************************)
(* Properties of the reordering (SpecReorder).                             *)
(***************************************************************************)
\* s contains the text pat, ignoring case
ContainsSubstring(s, pat) ==
    \E off \in 0..(Len(s) - Len(pat)) :
        \A i \in 1..Len(pat) : Lower(pat[i]) = Lower(s[off + i])

SubstringMatches(rows, pat) ==
    {i \in 1..Len(rows) : ContainsSubstring(rows[i].Destination, pat)}

\* C3 as stated: after the start step the entries whose Destination contains
\* the start-city text come first, then the others, both in their original
\* order; without a match, or with an empty text, nothing changes.
C3_StartCityReorder ==
    pc = "started" =>
      LET M == SubstringMatches(joined_df, start_city)
      IN  IF start_city = <<>> \/ M = {}
          THEN started_df = joined_df
          ELSE started_df = Pick(joined_df, M)
                               \o Pick(joined_df, (1..Len(joined_df)) \ M)

\* C4 as stated: after both steps the sequence is a permutation of the
\* joined entries, and the entries whose Destination contains the end-city
\* text are last, in the order the start step left them in.
C4_PermutationEndLast ==
    pc = "ended" =>
      LET M == SubstringMatches(started_df, end_city)
          n == Len(itinerary_df)
      IN  /\ n = Len(joined_df)
          /\ \A i \in 1..n : \E j \in 1..n : itinerary_df[j] = joined_df[i]
          /\ \A i, j \in 1..n : i # j => itinerary_df[i].idx # itinerary_df[j].idx
          /\ SubSeq(itinerary_df, n - Cardinality(M) + 1, n) = Pick(started_df, M)

(***************************************************************************)
(* Properties of the day-bucketing (SpecBucket).                           *)
(***************************************************************************)
\* the entries of the table that some day of the plan holds
Assigned == UNION {{day_plans[d][j] : j \in 1..Len(day_plans[d])} :
                      d \in DOMAIN day_plans}
NoneOmitted == \A p \in 1..Len(itinerary_df) : itinerary_df[p] \in Assigned
BucketSize == IF Len(itinerary_df) \div num_days >= 1
              THEN Len(itinerary_df) \div num_days ELSE 1

\* C1: with s = max(1, floor(T / N)), day d holds exactly the entries at
\* 0-based positions (d-1)*s .. min(d*s, T)-1 of the reordered sequence, in
\* that order, and an entry at a 0-based position >= N*s is in no day.
C1_DayBucketing ==
    pc = "bucketed" =>
        LET T == Len(itinerary_df)
            s == BucketSize
        IN  /\ DOMAIN day_plans = 1..num_days
            /\ \A d \in 1..num_days :
                 LET last == IF d * s < T THEN d * s ELSE T
                     cnt == IF last > (d - 1) * s THEN last - (d - 1) * s ELSE 0
                 IN  /\ Len(day_plans[d]) = cnt
                     /\ \A j \in 1..cnt :
                          day_plans[d][j] = itinerary_df[(d - 1) * s + j]
            /\ \A p \in 1..T : p - 1 >= num_days * s => itinerary_df[p] \notin Assigned

\* 9 entries over 4 days: four days of 2, the 9th entry in no day
C1_Witness ==
    /\ pc = "bucketed" /\ Len(itinerary_df) = 9 /\ num_days = 4
    /\ \A d \in 1..4 : Len(day_plans[d]) = 2
    /\ itinerary_df[9] \notin Assigned

\* C2 as stated: no entry is omitted only if T is divisible by N, and when T
\* is not divisible by N the entries beyond N * slice_size are omitted.
C2_OmitsNoneOnlyIfDivisible ==
    pc = "bucketed" =>
        LET T == Len(itinerary_df)
        IN  /\ NoneOmitted => T % num_days = 0
            /\ T % num_days # 0 =>
                 \A p \in 1..T : p - 1 >= num_days * BucketSize =>
                                    itinerary_df[p] \notin Assigned

\* C2 amended: no entry is omitted exactly when T is divisible by N or
\* T < N; when T >= N and T is not divisible by N, exactly the trailing
\* T mod N entries are omitted from every day.
C2_OmitsNoneIffDivisibleOrShort ==
    pc = "bucketed" =>
        LET T == Len(itinerary_df)
        IN  /\ NoneOmitted <=> (T % num_days = 0 \/ T < num_days)
            /\ (T >= num_days /\ T % num_days # 0) =>
                 \A p \in 1..T :
                    itinerary_df[p] \notin Assigned <=> p > T - (T % num_days)

\* 2 entries over 3 days: not divisible, yet both entries are in the plan
C2_Witness ==
    /\ pc = "bucketed" /\ Len(itinerary_df) = 2 /\ num_days = 3
    /\ NoneOmitted

(***************************************************************************)
(* The script (SpecLoad).  Streamlit runs app.py from the top on every     *)
(* interaction; an exception ends the run and is shown to the user.  pc    *)
(* is the block the run is about to execute.                               *)
(***************************************************************************)
Pages == {"Home", "Explore", "Itinerary", "About"}

ItineraryIdle ==
    /\ FormIs(NoForm)
    /\ itinerary_df = <<>> /\ joined_df = <<>> /\ started_df = <<>>
    /\ day_plans = <<>>

itinVars == <<formVars, itinerary_df, joined_df, started_df, day_plans>>

\* tourism.db as an earlier process left it: no table, or a cleaned table
StaleStores ==
    {NoTable, to_sql(data_cleaning(load_excel_data(
                 File(ReviewColumns,
                      <<RawReview(<<"K","a","n","d","y">>, <<"K","a","n","d","y">>,
                                  S_Neutral, <<"7",".","3">>)>>)).df).df)}

InitLoad ==
    /\ reviews_xlsx \in ReviewFiles
    /\ activities_csv \in ActivityFiles
    /\ reviews_df = EmptyFrame /\ activities_df = EmptyFrame
    /\ db \in StaleStores
    /\ page = "Home"                      \* app.py:78-79
    /\ clicked = NoClick
    /\ exc = "none" /\ messages = {} /\ rendered = "nothing"
    /\ pc = "load_excel"
    /\ ItineraryIdle

Raise(e) == /\ exc' = e /\ pc' = "stopped"

\* app.py:36
LoadExcel ==
    /\ pc = "load_excel"
    /\ LET r == load_excel_data(reviews_xlsx)
       IN  /\ messages' = messages \cup r.msg
           /\ IF r.exc = "none"
              THEN /\ reviews_df' = r.df /\ pc' = "load_activities" /\ exc' = exc
              ELSE /\ reviews_df' = reviews_df /\ Raise(r.exc)
    /\ UNCHANGED <<reviews_xlsx, activities_csv, activities_df, db, page, clicked,
                   rendered, itinVars>>

\* app.py:52
LoadActivities ==
    /\ pc = "load_activities"
    /\ LET r == load_activities_data(activities_csv)
       IN  /\ messages' = messages \cup r.msg
           /\ IF r.exc = "none"
              THEN /\ activities_df' = r.df /\ pc' = "clean" /\ exc' = exc
              ELSE /\ activities_df' = activities_df /\ Raise(r.exc)
    /\ UNCHANGED <<reviews_xlsx, activities_csv, reviews_df, db, page, clicked,
                   rendered, itinVars>>

\* app.py:55-63
DataCleaning ==
    /\ pc = "clean"
    /\ LET r == data_cleaning(reviews_df)
       IN  /\ reviews_df' = r.df
           /\ IF r.exc = "none"
              THEN pc' = "db" /\ exc' = exc
              ELSE Raise(r.exc)
    /\ UNCHANGED <<reviews_xlsx, activities_csv, activities_df, db, page, clicked,
                   messages, rendered, itinVars>>

\* app.py:66-72: DROP TABLE IF EXISTS, then to_sql unless the table is empty
DatabaseSetup ==
    /\ pc = "db"
    /\ db' = IF ~empty(reviews_df) THEN to_sql(reviews_df) ELSE NoTable
    /\ pc' = "navbar"
    /\ UNCHANGED <<reviews_xlsx, activities_csv, reviews_df, activities_df, page,
                   clicked, exc, messages, rendered, itinVars>>

\* app.py:82-85: the buttons are drawn; the one pressed sets the page
Navbar ==
    /\ pc = "navbar"
    /\ page' = IF clicked # NoClick THEN clicked ELSE page
    /\ rendered' = "navbar"
    /\ pc' = "page"
    /\ UNCHANGED <<reviews_xlsx, activities_csv, reviews_df, activities_df, db,
                   clicked, exc, messages, itinVars>>

\* app.py:128-159
HomePage ==
    /\ pc = "page" /\ page = "Home"
    /\ rendered' = "home" /\ pc' = "done"
    /\ UNCHANGED <<reviews_xlsx, activities_csv, reviews_df, activities_df, db, page,
                   clicked, exc, messages, itinVars>>

\* app.py:162-252: SELECT * FROM reviews fails when the table does not exist
ExplorePage ==
    /\ pc = "page" /\ page = "Explore"
    /\ IF ~db.exists
       THEN /\ Raise("DatabaseError") /\ rendered' = rendered
       ELSE /\ rendered' = IF db.rows # <<>> THEN "charts" ELSE "no charts"
            /\ pc' = "done" /\ exc' = exc
    /\ UNCHANGED <<reviews_xlsx, activities_csv, reviews_df, activities_df, db, page,
                   clicked, messages, itinVars>>

\* app.py:255-338: the form is shown when both tables have rows
ItineraryPage ==
    /\ pc = "page" /\ page = "Itinerary"
    /\ rendered' = IF ~empty(reviews_df) /\ ~empty(activities_df)
                   THEN "form" ELSE "no form"
    /\ pc' = "done"
    /\ UNCHANGED <<reviews_xlsx, activities_csv, reviews_df, activities_df, db, page,
                   clicked, exc, messages, itinVars>>

\* app.py:341-368
AboutPage ==
    /\ pc = "page" /\ page = "About"
    /\ rendered' = "about" /\ pc' = "done"
    /\ UNCHANGED <<reviews_xlsx, activities_csv, reviews_df, activities_df, db, page,
                   clicked, exc, messages, itinVars>>

NewRun(button) ==
    /\ clicked' = button
    /\ exc' = "none" /\ messages' = {} /\ rendered' = "nothing"
    /\ pc' = "load_excel"
    /\ UNCHANGED <<reviews_xlsx, activities_csv, reviews_df, activities_df, db, page,
                   itinVars>>

\* the user presses a navigation button of the page on screen: a new run
Click ==
    /\ pc \in {"done", "stopped"} /\ rendered # "nothing"
    /\ \E button \in Pages : NewRun(button)

\* the user reloads the page: a new run without a button pressed
Rerun ==
    /\ pc \in {"done", "stopped"}
    /\ NewRun(NoClick)

NextLoad ==
    \/ LoadExcel \/ LoadActivities \/ DataCleaning \/ DatabaseSetup \/ Navbar
    \/ HomePage \/ ExplorePage \/ ItineraryPage \/ AboutPage
    \/ Click \/ Rerun

SpecLoad == InitLoad /\ [][NextLoad]_vars

(***************************************************************************)
(* Properties of loading, cleaning and the pages (SpecLoad).               *)
(***************************************************************************)
LacksColumn(file, required) ==
    file.exists /\ ~(required \subseteq {strip(c) : c \in file.columns})

\* the current run has executed line 36, line 52, the cleaning block, the
\* database block
PastLoadExcel == pc # "load_excel"
PastLoadActivities == pc \notin {"load_excel", "load_activities"}
PastCleaning == \/ pc \in {"db", "navbar", "page", "done"}
                \/ pc = "stopped" /\ exc = "DatabaseError"
PastDatabase == \/ pc \in {"navbar", "page", "done"}
                \/ pc = "stopped" /\ exc = "DatabaseError"

\* C6 as stated: with an empty review dataset, every page is rendered
\* without an exception; Explore shows no charts, Itinerary no form.
C6_EmptyReviewsPagesSkip ==
    ( /\ ~reviews_xlsx.exists \/ reviews_xlsx.rows = <<>>
      /\ ~LacksColumn(activities_csv, ActivityColumns)
      /\ pc \in {"done", "stopped"} )
    => /\ exc = "none"
       /\ page = "Explore" => rendered = "no charts"
       /\ page = "Itinerary" => rendered = "no form"

\* C7 as stated: a file lacking a required column gives an empty table and a
\* warning, and no exception leaves the load path.
C7_MissingColumnGraceful ==
    /\ (LacksColumn(activities_csv, ActivityColumns) /\ PastLoadActivities)
         => exc = "none" /\ empty(activities_df) /\ messages # {}
    /\ (LacksColumn(reviews_xlsx, ReviewColumns) /\ reviews_xlsx.rows # <<>>
          /\ ~LacksColumn(activities_csv, ActivityColumns)
          /\ pc \in {"db", "navbar", "page", "done", "stopped"})
         => exc = "none" /\ empty(reviews_df) /\ messages # {}

\* C8: a loader whose file does not exist returns an empty table, shows its
\* message and raises nothing; the table of the other loader is the content
\* of the other file.
C8_MissingFile ==
    /\ (~reviews_xlsx.exists /\ PastLoadExcel)
         => /\ empty(reviews_df)
            /\ ReviewsNotFound \in messages
            /\ exc # "FileNotFoundError"
            /\ (activities_csv.exists /\ ~LacksColumn(activities_csv, ActivityColumns)
                  /\ PastLoadActivities)
                 => /\ Len(activities_df.rows) = Len(activities_csv.rows)
                    /\ ActivitiesNotFound \notin messages
    /\ (~activities_csv.exists /\ PastLoadActivities)
         => /\ empty(activities_df)
            /\ ActivitiesNotFound \in messages
            /\ exc # "FileNotFoundError"
            /\ (reviews_xlsx.exists /\ pc = "clean")
                 => /\ reviews_df.rows = reviews_xlsx.rows
                    /\ ReviewsNotFound \notin messages

\* the review file is absent, the activity file was loaded, the run completed
C8_Witness ==
    /\ ~reviews_xlsx.exists /\ pc = "done"
    /\ ReviewsNotFound \in messages /\ empty(reviews_df)
    /\ ~empty(activities_df)

\* C9: after cleaning, every row of reviews_df and of the table "reviews"
\* has Sentiment in {Positive, Neutral, Negative}, and no input row whose
\* title-cased Sentiment is outside that set is left.
C9_SentimentEnum ==
    /\ PastCleaning =>
         /\ \A i \in 1..Len(reviews_df.rows) : reviews_df.rows[i].Sentiment \in Sentiments
         /\ \A i \in 1..Len(reviews_xlsx.rows) :
               title(astype_str(reviews_xlsx.rows[i].Sentiment)) \notin Sentiments
                  => reviews_xlsx.rows[i].idx \notin index(reviews_df.rows)
    /\ PastDatabase =>
         /\ \A i \in 1..Len(db.rows) : db.rows[i].Sentiment \in Sentiments
         /\ Len(db.rows) = Len(reviews_df.rows)
         /\ \A i \in 1..Len(db.rows) : db.rows[i].Destination = reviews_df.rows[i].Destination

\* a run that dropped a row for its Sentiment and stored the others
C9_Witness ==
    /\ pc = "done" /\ db.exists /\ db.rows # <<>>
    /\ Len(reviews_df.rows) < Len(reviews_xlsx.rows)
====
